---- MODULE Spec2Model ----
(***************************************************************************)
(* State-machine model of the cinder collector (collector/collector.go):   *)
(* the collector's fields, one CollectMetrics call at a time driven by the *)
(* host, and the goroutines that CollectMetrics launches.                  *)
(*                                                                         *)
(* The orchestrator (the goroutine running CollectMetrics) is modelled by  *)
(* pc; every goroutine launched with `go func` is an element of tasks and  *)
(* takes its own steps, interleaved with the orchestrator's.  The host     *)
(* calls the plugin sequentially and always passes at least one metric     *)
(* type (metricTypes[0] is read unconditionally at line 96).  The wall     *)
(* clock timestamp of a metric (line 237) is not modelled.                 *)
(***************************************************************************)
EXTENDS Integers, Sequences, FiniteSets, TLC

\* ------------------------------------------------------------- bounds
\* Number of CollectMetrics calls the host makes.
MaxCalls == 2

\* ---------------------------------------------------- program constants
\* len(namespace) < 6 is rejected (line 116).
MinSegments == 6
\* errChn := make(chan error, 2) of the admin phase (line 143).
AdminChnCap == 2

\* vendor, fs, name (lines 39-43).
Prefix == <<"intel", "openstack", "cinder">>

\* --------------------------------------------------------- environment
\* Tenants of the cloud: identifier -> display name, as GetTenants lists them.
TenantIds == {"id_alpha", "id_beta"}
NameOf(i) == IF i = "id_alpha" THEN "alpha" ELSE "beta"
\* Display names that occur in requests: the listed tenants, and a tenant that
\* is named like a category.
Tenants == {NameOf(i) : i \in TenantIds} \cup {"volumes"}

\* The admin tenant named by the "tenant" configuration item.
Admin == "alpha"

\* A namespace is the sequence of its segments.
Ns(tenant, category, leaf) == Prefix \o <<tenant, category, leaf>>
NsShort == Prefix \o <<"alpha">>
NsPool ==
  { Ns("alpha", "volumes", "count"),
    Ns("beta", "limits", "maxVolumes"),
    Ns("alpha", "limits", "maxVolumes"),
    Ns("beta", "snapshots", "count"),
    NsShort }

\* A snapshots namespace of a tenant whose display name is "volumes".
NsTenantVolumes == Ns("volumes", "snapshots", "count")

\* Requests of the host: one or two metric types of the pool, or the namespace
\* of the tenant named like a category, alone.
Requests ==
  {<<a>> : a \in NsPool} \cup {<<a, b>> : a \in NsPool, b \in NsPool}
  \cup {<<NsTenantVolumes>>}

\* The configuration attached to metricTypes[0]: which items are present.
Configs ==
  { [tenant |-> TRUE, creds |-> TRUE],
    [tenant |-> FALSE, creds |-> TRUE],
    [tenant |-> TRUE, creds |-> FALSE] }

\* Values the services return.
CountVals == {7, 8}
LimitVals == {50}

\* types.Volumes / types.Snapshots / types.Limits and their zero values.
Count(v) == [count |-> v]
Limits(v) == [maxVolumes |-> v]
ZeroCount == Count(0)
ZeroLimits == Limits(0)

\* ------------------------------------------------------------ Go maps
EmptyMap == <<>>
Put(m, k, v) == [x \in (DOMAIN m) \cup {k} |-> IF x = k THEN v ELSE m[x]]
\* m[k] of a Go map: the zero value when k is absent.
Get(m, k, zero) == IF k \in DOMAIN m THEN m[k] ELSE zero

\* What cmn.GetTenants can list: every tenant, or none visible.
DirFull == [i \in TenantIds |-> NameOf(i)]
DirEmpty == EmptyMap
ListResults == {DirFull, DirEmpty}

VARIABLES
  allTenants,       \* c.allTenants: identifier -> display name
  providers,        \* c.providers: tenant -> session
  service,          \* c.service: the dispatched API version
  allLimits,        \* c.allLimits: tenant -> Limits
  pc,               \* position of the orchestrator in CollectMetrics
  callNo,           \* number of CollectMetrics calls started
  metricTypes,      \* argument of the current (or last) call
  cfg,              \* configuration of metricTypes[0]
  collectTenants,   \* str.InitSet() of line 112
  collectLimits, collectVolumes, collectSnapshots,
  pending,          \* rest of collectTenants.Elements() in the loop of line 191
  allVolumes, allSnapshots,  \* call-local result maps
  errChn,           \* admin phase error channel of the current call
  limChn,           \* limits phase error channel of every call
  tasks,            \* goroutines in flight
  ret,              \* what the last call returned
  authOk,           \* history: successful Authenticate calls per tenant
  limitsCalls,      \* history: GetLimits invocations per tenant
  limitsLog,        \* history: <<tenant, session, Limits>> GetLimits returned
  obs               \* history of the current call, and whether a call has
                    \* stored a listed directory

fields == <<allTenants, providers, service, allLimits>>
plan == <<collectTenants, collectLimits, collectVolumes, collectSnapshots>>
locals == <<pending, allVolumes, allSnapshots, errChn>>
hist == <<authOk, limitsCalls, limitsLog>>
vars == <<fields, pc, callNo, metricTypes, cfg, plan, locals, limChn, tasks, ret,
          hist, obs>>

NoObs ==
  [ listings |-> 0,
    exch |-> [t \in Tenants |-> 0],
    authFailed |-> FALSE,
    launched |-> {},
    failed |-> {},
    stored |-> {},
    providers0 |-> EmptyMap,
    dir0 |-> EmptyMap,
    dirStored |-> FALSE ]

\* New() (lines 47-56): empty maps, nothing collected yet.
Init ==
  /\ allTenants = EmptyMap
  /\ providers = EmptyMap
  /\ service = <<>>
  /\ allLimits = EmptyMap
  /\ pc = "idle"
  /\ callNo = 0
  /\ metricTypes = <<>>
  /\ cfg = [tenant |-> TRUE, creds |-> TRUE]
  /\ collectTenants = {}
  /\ collectLimits = FALSE
  /\ collectVolumes = FALSE
  /\ collectSnapshots = FALSE
  /\ pending = <<>>
  /\ allVolumes = EmptyMap
  /\ allSnapshots = EmptyMap
  /\ errChn = <<>>
  /\ limChn = [c \in 1..MaxCalls |-> [cap |-> 0, buf |-> <<>>]]
  /\ tasks = {}
  /\ ret = [call |-> 0, err |-> "none", metrics |-> <<>>]
  /\ authOk = [t \in Tenants |-> 0]
  /\ limitsCalls = [t \in Tenants |-> 0]
  /\ limitsLog = {}
  /\ obs = NoObs

\* ------------------------------------------------------------ helpers
\* str.Contains(slice, lookup): some element of the slice equals lookup.
Contains(slice, lookup) == \E i \in DOMAIN slice : slice[i] = lookup

\* A wait group that counts nothing.
InFlightNone(n) == {}

\* Tasks (goroutines) launched by call n that have not finished.
InFlight(n) == {t \in tasks : t.call = n}

\* `return nil, err` / `return metrics, nil`: the call is over; its locals die.
Return(n, e, m) ==
  /\ pc' = "idle"
  /\ ret' = [call |-> n, err |-> e, metrics |-> m]
  /\ collectTenants' = {}
  /\ collectLimits' = FALSE
  /\ collectVolumes' = FALSE
  /\ collectSnapshots' = FALSE
  /\ pending' = <<>>
  /\ allVolumes' = EmptyMap
  /\ allSnapshots' = EmptyMap
  /\ errChn' = <<>>

\* getTenants(cfg) (lines 311-339): the configuration items, then one listing.
getTenants(c) ==
  IF ~c.creds
  THEN {[err |-> "ConfigError", dir |-> EmptyMap, listed |-> 0]}
  ELSE {[err |-> "DirectoryError", dir |-> EmptyMap, listed |-> 1]}
       \cup {[err |-> "none", dir |-> d, listed |-> 1] : d \in ListResults}

\* A lookup that never finds the session.
SessionFoundNever(tenant) == FALSE

\* `_, found := c.providers[tenant]` (line 275).
SessionFound(tenant) == tenant \in DOMAIN providers

\* The provider a successful Authenticate returns: a new handle every time.
NewSession(tenant) == <<tenant, authOk[tenant] + 1>>

\* services.Dispatch(provider): the API version is a function of the provider.
Dispatch(provider) == <<"service", provider>>

\* An authenticate that stores the session of a failed exchange.
authenticateCaching(tenant) ==
  IF SessionFound(tenant)
  THEN {[err |-> "none", providers |-> providers, service |-> service, exch |-> 0]}
  ELSE IF ~cfg.creds
  THEN {[err |-> "ConfigError", providers |-> providers, service |-> service,
         exch |-> 0]}
  ELSE {[err |-> "AuthenticationError",
         providers |-> Put(providers, tenant, NewSession(tenant)),
         service |-> Dispatch(NewSession(tenant)), exch |-> 1],
        [err |-> "none",
         providers |-> Put(providers, tenant, NewSession(tenant)),
         service |-> Dispatch(NewSession(tenant)), exch |-> 1]}

\* authenticate(cfg, tenant) (lines 274-309): its possible outcomes, each with
\* the providers and service it leaves and whether Authenticate was called.
authenticate(tenant) ==
  IF SessionFound(tenant)
  THEN {[err |-> "none", providers |-> providers, service |-> service, exch |-> 0]}
  ELSE IF ~cfg.creds
  THEN {[err |-> "ConfigError", providers |-> providers, service |-> service,
         exch |-> 0]}
  ELSE {[err |-> "AuthenticationError", providers |-> providers,
         service |-> service, exch |-> 1],
        [err |-> "none",
         providers |-> Put(providers, tenant, NewSession(tenant)),
         service |-> Dispatch(NewSession(tenant)), exch |-> 1]}

\* The history an authenticate outcome leaves.
ObsAuth(o, tenant, a) ==
  [o EXCEPT !.exch[tenant] = @ + a.exch,
            !.authFailed = @ \/ (a.err = "AuthenticationError")]
AuthOk(tenant, a) ==
  IF a.exch = 1 /\ a.err = "none"
  THEN [authOk EXCEPT ![tenant] = @ + 1]
  ELSE authOk

\* ------------------------------------------------- the host's operations
\* GetMetricTypes (lines 60-90): c.allTenants is assigned whatever getTenants
\* returned, nil on error.  The metric types it returns are not kept.
GetMetricTypes ==
  /\ pc = "idle"
  /\ \E c \in Configs : \E g \in getTenants(c) : allTenants' = g.dir
  /\ UNCHANGED <<providers, service, allLimits, pc, callNo, metricTypes, cfg, plan,
                 locals, limChn, tasks, ret, hist, obs>>

\* CollectMetrics, lines 94-100: the admin tenant from the configuration.
CollectStart ==
  /\ pc = "idle"
  /\ callNo < MaxCalls
  /\ callNo' = callNo + 1
  /\ \E r \in Requests, c \in Configs :
       /\ metricTypes' = r
       /\ cfg' = c
       /\ IF ~c.tenant
          THEN Return(callNo + 1, "ConfigError", <<>>)
          ELSE /\ pc' = "tenants"
               /\ ret' = [call |-> callNo + 1, err |-> "pending", metrics |-> <<>>]
               /\ UNCHANGED <<plan, locals>>
  /\ obs' = [NoObs EXCEPT !.providers0 = providers, !.dir0 = allTenants,
                          !.dirStored = obs.dirStored]
  /\ UNCHANGED <<fields, limChn, tasks, hist>>

\* A directory that always counts as empty.
DirectoryEmptyAlways == TRUE

\* `len(c.allTenants) == 0` (line 102).
DirectoryEmpty == Cardinality(DOMAIN allTenants) = 0

\* Lines 102-108: list the tenants when the cached directory is empty.
PopulateTenants ==
  /\ pc = "tenants"
  /\ IF DirectoryEmpty
     THEN \E g \in getTenants(cfg) :
            /\ allTenants' = g.dir
            /\ obs' = [obs EXCEPT !.listings = @ + g.listed,
                                  !.dirStored = @ \/ g.dir # EmptyMap]
            /\ IF g.err # "none"
               THEN Return(callNo, g.err, <<>>)
               ELSE pc' = "plan" /\ UNCHANGED <<ret, plan, locals>>
     ELSE /\ pc' = "plan"
          /\ UNCHANGED <<allTenants, obs, ret, plan, locals>>
  /\ UNCHANGED <<providers, service, allLimits, callNo, metricTypes, cfg, limChn,
                 tasks, hist>>

\* `len(namespace) < 6` (line 116).
Malformed(namespace) == Len(namespace) < MinSegments

\* The category branch of lines 123-129.
IsLimits(namespace) == Contains(namespace, "limits")
IsVolumes(namespace) == ~IsLimits(namespace) /\ Contains(namespace, "volumes")
IsSnapshots(namespace) == ~IsLimits(namespace) /\ ~Contains(namespace, "volumes")

\* A scan that has authenticated to the admin tenant before it rejects.
PlanAuthFirst ==
  /\ pc = "plan"
  /\ \E a \in authenticate(Admin) :
       /\ providers' = a.providers
       /\ service' = a.service
       /\ authOk' = AuthOk(Admin, a)
       /\ obs' = ObsAuth(obs, Admin, a)
       /\ IF a.err # "none"
          THEN Return(callNo, a.err, <<>>)
          ELSE IF \E i \in DOMAIN metricTypes : Malformed(metricTypes[i])
          THEN Return(callNo, "MalformedNamespace", <<>>)
          ELSE /\ collectTenants' = {metricTypes[i][4] : i \in DOMAIN metricTypes}
               /\ collectLimits' =
                    \E i \in DOMAIN metricTypes : IsLimits(metricTypes[i])
               /\ collectVolumes' =
                    \E i \in DOMAIN metricTypes : IsVolumes(metricTypes[i])
               /\ collectSnapshots' =
                    \E i \in DOMAIN metricTypes : IsSnapshots(metricTypes[i])
               /\ pc' = "admin"
               /\ UNCHANGED <<ret, locals>>
  /\ UNCHANGED <<allTenants, allLimits, callNo, metricTypes, cfg, limChn, tasks,
                 limitsCalls, limitsLog>>

\* Lines 110-130: the scan of the requested namespaces.  It returns at the
\* first malformed namespace; until then it has only written its locals.
Plan ==
  /\ pc = "plan"
  /\ IF \E i \in DOMAIN metricTypes : Malformed(metricTypes[i])
     THEN Return(callNo, "MalformedNamespace", <<>>)
     ELSE /\ collectTenants' = {metricTypes[i][4] : i \in DOMAIN metricTypes}
          /\ collectLimits' = \E i \in DOMAIN metricTypes : IsLimits(metricTypes[i])
          /\ collectVolumes' = \E i \in DOMAIN metricTypes : IsVolumes(metricTypes[i])
          /\ collectSnapshots' =
               \E i \in DOMAIN metricTypes : IsSnapshots(metricTypes[i])
          /\ pc' = "admin"
          /\ UNCHANGED <<ret, locals>>
  /\ UNCHANGED <<fields, callNo, metricTypes, cfg, limChn, tasks, hist, obs>>

\* ------------------------------------------------------- admin phase
\* A goroutine of CollectMetrics: the call that launched it, what it fetches,
\* the provider it was handed, where it is, and the Limits it holds.
Task(n, kind, tenant, provider) ==
  [call |-> n, kind |-> kind, tenant |-> tenant, p |-> provider,
   pc |-> "launched", limits |-> ZeroLimits]

\* An admin phase that launches both fetches when either is needed.
AdminTasksBoth(provider) ==
  IF collectVolumes \/ collectSnapshots
  THEN {Task(callNo, "volumes", Admin, provider),
        Task(callNo, "snapshots", Admin, provider)}
  ELSE {}

\* The goroutines lines 146-176 launch.
AdminTasks(provider) ==
  (IF collectVolumes THEN {Task(callNo, "volumes", Admin, provider)} ELSE {})
  \cup
  (IF collectSnapshots THEN {Task(callNo, "snapshots", Admin, provider)} ELSE {})

Launched(ts) == {<<t.kind, t.tenant, t.p>> : t \in ts}

\* Lines 137-176: authenticate to the admin tenant, then launch the volumes
\* and snapshots goroutines.
AdminAuth ==
  /\ pc = "admin"
  /\ \E a \in authenticate(Admin) :
       /\ providers' = a.providers
       /\ service' = a.service
       /\ authOk' = AuthOk(Admin, a)
       /\ IF a.err # "none"
          THEN /\ Return(callNo, a.err, <<>>)
               /\ obs' = ObsAuth(obs, Admin, a)
               /\ UNCHANGED tasks
          ELSE /\ tasks' = tasks \cup AdminTasks(a.providers[Admin])
               /\ obs' = [ObsAuth(obs, Admin, a) EXCEPT
                            !.launched = @ \cup Launched(AdminTasks(a.providers[Admin]))]
               /\ pc' = "adminWait"
               /\ UNCHANGED <<ret, plan, locals>>
  /\ UNCHANGED <<allTenants, allLimits, callNo, metricTypes, cfg, limChn,
                 limitsCalls, limitsLog>>

\* `tenantName := c.allTenants[tenantId]` (lines 156, 172).
TenantName(tenantId) == Get(allTenants, tenantId, "")

\* The loops of lines 155-158 and 171-174: the call-local map after ranging
\* over the fetched map.  Where two identifiers have the same name the map
\* iteration order decides which count stays.
ByName(counts) ==
  LET names == {TenantName(i) : i \in DOMAIN counts}
  IN {m \in [names -> {Count(v) : v \in CountVals}] :
        \A n \in names : \E i \in DOMAIN counts :
           TenantName(i) = n /\ m[n] = Count(counts[i])}

\* What GetVolumes / GetSnapshots can return on success.
CountResults == [TenantIds -> CountVals]

\* The volumes goroutine (lines 148-159).
VolumesTask ==
  /\ \E t \in tasks :
       /\ t.kind = "volumes"
       /\ tasks' = tasks \ {t}
       /\ \/ /\ Len(errChn) < AdminChnCap
             /\ errChn' = Append(errChn, "FetchError")
             /\ obs' = [obs EXCEPT !.failed = @ \cup {<<"volumes", t.tenant>>}]
             /\ UNCHANGED allVolumes
          \/ /\ \E volumes \in CountResults : allVolumes' \in ByName(volumes)
             /\ UNCHANGED <<errChn, obs>>
  /\ UNCHANGED <<fields, pc, callNo, metricTypes, cfg, plan, pending, allSnapshots,
                 limChn, ret, hist>>

\* The snapshots goroutine (lines 164-175).
SnapshotsTask ==
  /\ \E t \in tasks :
       /\ t.kind = "snapshots"
       /\ tasks' = tasks \ {t}
       /\ \/ /\ Len(errChn) < AdminChnCap
             /\ errChn' = Append(errChn, "FetchError")
             /\ obs' = [obs EXCEPT !.failed = @ \cup {<<"snapshots", t.tenant>>}]
             /\ UNCHANGED allSnapshots
          \/ /\ \E snapshots \in CountResults : allSnapshots' \in ByName(snapshots)
             /\ UNCHANGED <<errChn, obs>>
  /\ UNCHANGED <<fields, pc, callNo, metricTypes, cfg, plan, pending, allVolumes,
                 limChn, ret, hist>>

\* A join that does not look at the channel.
FirstErrorDropped(chn) == "none"

\* `e := <-errChn` on a closed channel: the first buffered error, or nil.
FirstError(chn) == IF chn = <<>> THEN "none" ELSE Head(chn)

\* Lines 178-184 and 188-189: done.Wait(), close, first error; then the limits
\* phase opens its channel and starts ranging over collectTenants.Elements(),
\* whose order the set does not fix.
AdminJoin ==
  /\ pc = "adminWait"
  /\ \A t \in InFlight(callNo) : t.kind \notin {"volumes", "snapshots"}
  /\ IF FirstError(errChn) # "none"
     THEN /\ Return(callNo, FirstError(errChn), <<>>)
          /\ UNCHANGED limChn
     ELSE /\ pc' = "limits"
          /\ \E order \in [1..Cardinality(collectTenants) -> collectTenants] :
               /\ \A i, j \in DOMAIN order : i # j => order[i] # order[j]
               /\ pending' = order
          /\ limChn' = [limChn EXCEPT ![callNo] =
                          [cap |-> Cardinality(collectTenants), buf |-> <<>>]]
          /\ UNCHANGED <<ret, plan, allVolumes, allSnapshots, errChn>>
  /\ UNCHANGED <<fields, callNo, metricTypes, cfg, tasks, hist, obs>>

\* ------------------------------------------------------ limits phase
\* `_, found := c.allLimits[tenant]; if collectLimits && !found` (lines 192-193).
LimitsNeeded(tenant) == collectLimits /\ tenant \notin DOMAIN allLimits

\* One iteration of the loop of lines 191-210.  An authenticate error returns
\* at once (line 195); the goroutines launched by earlier iterations run on.
LimitsIter ==
  /\ pc = "limits"
  /\ pending # <<>>
  /\ LET tenant == Head(pending) IN
       IF LimitsNeeded(tenant)
       THEN \E a \in authenticate(tenant) :
              /\ providers' = a.providers
              /\ service' = a.service
              /\ authOk' = AuthOk(tenant, a)
              /\ IF a.err # "none"
                 THEN /\ Return(callNo, a.err, <<>>)
                      /\ obs' = ObsAuth(obs, tenant, a)
                      /\ UNCHANGED tasks
                 ELSE /\ tasks' = tasks \cup
                           {Task(callNo, "limits", tenant, a.providers[tenant])}
                      /\ obs' = [ObsAuth(obs, tenant, a) EXCEPT
                                   !.launched = @ \cup
                                     {<<"limits", tenant, a.providers[tenant]>>}]
                      /\ pending' = Tail(pending)
                      /\ UNCHANGED <<pc, ret, plan, allVolumes, allSnapshots, errChn>>
       ELSE /\ pending' = Tail(pending)
            /\ UNCHANGED <<providers, service, authOk, tasks, obs, pc, ret, plan,
                           allVolumes, allSnapshots, errChn>>
  /\ UNCHANGED <<allTenants, allLimits, callNo, metricTypes, cfg, limChn,
                 limitsCalls, limitsLog>>

\* The limits goroutine, lines 203-206: GetLimits on the provider it was
\* handed; an error goes to the channel of the call that launched it.
LimitsFetch ==
  /\ \E t \in tasks :
       /\ t.kind = "limits"
       /\ t.pc = "launched"
       /\ limitsCalls' = [limitsCalls EXCEPT ![t.tenant] = @ + 1]
       /\ \/ /\ Len(limChn[t.call].buf) < limChn[t.call].cap
             /\ limChn' = [limChn EXCEPT ![t.call].buf = Append(@, "FetchError")]
             /\ tasks' = (tasks \ {t}) \cup
                           {[t EXCEPT !.pc = "fetched", !.limits = ZeroLimits]}
             /\ obs' = IF t.call = callNo
                       THEN [obs EXCEPT !.failed = @ \cup {<<"limits", t.tenant>>}]
                       ELSE obs
             /\ UNCHANGED limitsLog
          \/ /\ \E v \in LimitVals :
                  /\ tasks' = (tasks \ {t}) \cup
                                {[t EXCEPT !.pc = "fetched", !.limits = Limits(v)]}
                  /\ limitsLog' = limitsLog \cup {<<t.tenant, t.p, Limits(v)>>}
             /\ UNCHANGED <<limChn, obs>>
  /\ UNCHANGED <<fields, pc, callNo, metricTypes, cfg, plan, locals, ret, authOk>>

\* Line 207, `c.allLimits[t] = limits`: the map assignment begins ...
LimitsStoreBegin ==
  /\ \E t \in tasks :
       /\ t.kind = "limits"
       /\ t.pc = "fetched"
       /\ tasks' = (tasks \ {t}) \cup {[t EXCEPT !.pc = "writing"]}
  /\ UNCHANGED <<fields, pc, callNo, metricTypes, cfg, plan, locals, limChn, ret,
                 hist, obs>>

\* ... and ends; the goroutine is done (line 202).
LimitsStoreEnd ==
  /\ \E t \in tasks :
       /\ t.kind = "limits"
       /\ t.pc = "writing"
       /\ allLimits' = Put(allLimits, t.tenant, t.limits)
       /\ tasks' = tasks \ {t}
       /\ obs' = IF t.call = callNo
                 THEN [obs EXCEPT !.stored = @ \cup {t.tenant}]
                 ELSE obs
  /\ UNCHANGED <<allTenants, providers, service, pc, callNo, metricTypes, cfg, plan,
                 locals, limChn, ret, hist>>

Writers == {t \in tasks : t.pc = "writing"}

\* c.allLimits is an unsynchronised Go map.  Two assignments in progress at
\* once, or the orchestrator about to read it (lines 192, 232) during an
\* assignment, is a data race: the runtime may let it pass or end the process
\* ("fatal error: concurrent map writes").
Throw ==
  /\ pc # "crashed"
  /\ \/ Cardinality(Writers) >= 2
     \/ /\ Writers # {}
        /\ \/ pc = "limits" /\ pending # <<>>
           \/ pc = "project"
  /\ pc' = "crashed"
  /\ tasks' = {}
  /\ UNCHANGED <<fields, callNo, metricTypes, cfg, plan, locals, limChn, ret, hist,
                 obs>>

\* Lines 212-218: done.Wait(), close, first error.
LimitsJoin ==
  /\ pc = "limits"
  /\ pending = <<>>
  /\ InFlight(callNo) = {}
  /\ IF FirstError(limChn[callNo].buf) # "none"
     THEN Return(callNo, FirstError(limChn[callNo].buf), <<>>)
     ELSE pc' = "project" /\ UNCHANGED <<ret, plan, locals>>
  /\ UNCHANGED <<fields, callNo, metricTypes, cfg, limChn, tasks, hist, obs>>

\* -------------------------------------------------------- projection
\* The metricContainer of lines 225-233; the fields carry their json tags.
Container(tenant) ==
  [snapshots |-> Get(allSnapshots, tenant, ZeroCount),
   volumes |-> Get(allVolumes, tenant, ZeroCount),
   limits |-> Get(allLimits, tenant, ZeroLimits)]

\* ns.GetValueByNamespace(container, path): descend by tag; <<v>> is the
\* value found, <<>> is nil.
GetValueByNamespace(container, path) ==
  IF /\ Len(path) = 2
     /\ path[1] \in DOMAIN container
     /\ path[2] \in DOMAIN container[path[1]]
  THEN <<container[path[1]][path[2]]>>
  ELSE <<>>

\* Lines 236-240.
Metric(namespace) ==
  [Namespace_ |-> namespace,
   Data_ |-> GetValueByNamespace(Container(namespace[4]),
                                 SubSeq(namespace, 5, Len(namespace)))]

\* A projection that builds the metrics back to front.
ProjectAllReversed(mts) == [i \in 1..Len(mts) |-> Metric(mts[Len(mts) + 1 - i])]

\* The loop of lines 220-242: one metric appended per metric type.
ProjectAll(mts) == [i \in 1..Len(mts) |-> Metric(mts[i])]

\* Lines 220-244.
Project ==
  /\ pc = "project"
  /\ Return(callNo, "none", ProjectAll(metricTypes))
  /\ UNCHANGED <<fields, callNo, metricTypes, cfg, limChn, tasks, hist, obs>>

Next ==
  \/ GetMetricTypes
  \/ CollectStart
  \/ PopulateTenants
  \/ Plan
  \/ AdminAuth
  \/ VolumesTask
  \/ SnapshotsTask
  \/ AdminJoin
  \/ LimitsIter
  \/ LimitsFetch
  \/ LimitsStoreBegin
  \/ LimitsStoreEnd
  \/ Throw
  \/ LimitsJoin
  \/ Project

Spec == Init /\ [][Next]_vars

\* ===================================================================
\* Properties
\* ===================================================================
\* The last CollectMetrics call has returned (ret is its result, obs its history).
Returned == pc = "idle" /\ callNo > 0

LimitsLaunched == {l[2] : l \in {x \in obs.launched : x[1] = "limits"}}
LimitsFailed == {f[2] : f \in {x \in obs.failed : x[1] = "limits"}}

\* C1: when at least one of the limits fetches a call launched has failed, the
\* call returns an error and, once all of its tasks have finished, c.allLimits
\* has an entry for none of the tenants of that batch.
C1_AllOrNothing ==
  (Returned /\ LimitsFailed # {} /\ InFlight(callNo) = {})
    => /\ ret.err # "none"
       /\ \A t \in LimitsLaunched : t \notin DOMAIN allLimits

\* C2: GetLimits is invoked at most once per tenant for the life of the
\* instance; once a tenant has an entry in c.allLimits no GetLimits is started
\* for it, and the entry is never removed or overwritten.
C2_LimitsCacheMonotone ==
  /\ [](\A t \in Tenants : limitsCalls[t] <= 1)
  /\ [][\A t \in DOMAIN allLimits :
          /\ t \in DOMAIN allLimits'
          /\ allLimits'[t] = allLimits[t]
          /\ limitsCalls'[t] = limitsCalls[t]]_vars

\* C3: at most one successful credential exchange per tenant; once a tenant's
\* session is stored it is never replaced, and no later authenticate for that
\* tenant calls Authenticate (obs.exch counts the calls within one Collect).
C3_SessionIdempotence ==
  /\ [](\A t \in Tenants : authOk[t] <= 1)
  /\ [][\A t \in DOMAIN providers :
          /\ t \in DOMAIN providers'
          /\ providers'[t] = providers[t]
          /\ obs'.exch[t] <= obs.exch[t]]_vars

\* C3's case: a second call went through authenticate for the admin tenant in
\* both phases, found the session an earlier call had stored, and launched the
\* tenant's limits fetch on that same session without any exchange.
C3_Witness ==
  /\ callNo = 2
  /\ Admin \in DOMAIN obs.providers0
  /\ <<"limits", Admin, obs.providers0[Admin]>> \in obs.launched
  /\ obs.exch[Admin] = 0
  /\ authOk[Admin] = 1

\* C4: a call rejected for a malformed namespace has performed no network
\* interaction: no tenant listing, no credential exchange, no fetch.
C4_MalformedNoNetwork ==
  (Returned /\ ret.err = "MalformedNamespace")
    => /\ obs.listings = 0
       /\ \A t \in Tenants : obs.exch[t] = 0
       /\ obs.launched = {}

C6_NoPartialSuccess ==
  Returned =>
    /\ \/ ret.err = "none" /\ Len(ret.metrics) = Len(metricTypes)
       \/ ret.err # "none" /\ ret.metrics = <<>>
    /\ (obs.failed # {} \/ obs.authFailed) => ret.err # "none"

\* C6's case: two fetches were launched, exactly one failed, the call returned
\* the error and nothing else.
C6_Witness ==
  /\ Returned
  /\ Cardinality(obs.launched) = 2
  /\ Cardinality(obs.failed) = 1
  /\ InFlight(callNo) = {}
  /\ ret.err = "FetchError"
  /\ ret.metrics = <<>>

\* C7: every limits value a successful call returns is the projection of a
\* Limits that a successful GetLimits on that tenant's own session returned.
C7_LimitsFromFetcher ==
  (Returned /\ ret.err = "none") =>
    \A i \in DOMAIN ret.metrics :
      LET namespace == ret.metrics[i].Namespace_ IN
        namespace[5] = "limits" =>
          \E e \in limitsLog :
            /\ e[1] = namespace[4]
            /\ namespace[4] \in DOMAIN providers
            /\ e[2] = providers[namespace[4]]
            /\ ret.metrics[i].Data_ =
                 GetValueByNamespace([limits |-> e[3]],
                                     SubSeq(namespace, 5, Len(namespace)))

\* Scenario A of the specification.
ScenarioA == <<Ns("alpha", "volumes", "count"), Ns("beta", "limits", "maxVolumes")>>

\* C8: a limits fetch is launched for a tenant only if a requested namespace
\* of that tenant has category limits; for Scenario A on empty caches exactly
\* one volumes fetch and one limits fetch, on beta's session, are performed
\* and two metrics are returned.
C8_LimitsOnlyRequested ==
  /\ \A l \in obs.launched :
       l[1] = "limits" =>
         \E i \in DOMAIN metricTypes :
           /\ Len(metricTypes[i]) >= 5
           /\ metricTypes[i][4] = l[2]
           /\ metricTypes[i][5] = "limits"
  /\ (Returned /\ callNo = 1 /\ metricTypes = ScenarioA /\ ret.err = "none")
       => /\ {<<l[1], l[2]>> : l \in obs.launched}
               = {<<"volumes", Admin>>, <<"limits", "beta">>}
          /\ Len(ret.metrics) = 2

\* C9: a successful call returns as many metrics as namespaces were requested,
\* the i-th metric carrying the i-th requested namespace.
C9_OrderPreserved ==
  (Returned /\ ret.err = "none") =>
    /\ Len(ret.metrics) = Len(metricTypes)
    /\ \A i \in DOMAIN metricTypes : ret.metrics[i].Namespace_ = metricTypes[i]

\* C9's case: a successful call on two different namespaces.
C9_Witness ==
  /\ Returned
  /\ ret.err = "none"
  /\ Len(metricTypes) = 2
  /\ metricTypes[1] # metricTypes[2]
  /\ Len(ret.metrics) = 2

\* C10: when a call has returned, no task it launched is still in flight.
C10_JoinBarrier == Returned => InFlight(ret.call) = {}

\* C11: writes to c.allLimits are race-free: no two limits tasks are inside the
\* map assignment at once, and none is inside it while the orchestrator is
\* about to read the map (the lookup of the limits loop, the projection).
C11_RaceFree ==
  /\ Cardinality(Writers) <= 1
  /\ Writers # {} => ~(pc = "limits" /\ pending # <<>>) /\ pc # "project"
  /\ pc # "crashed"

\* The fetches of one kind the current call has launched.
LaunchedKind(kind) == {l \in obs.launched : l[1] = kind}

\* C12: volumes and snapshots are fresh: the call-local result maps are empty
\* until the call's own fetches fill them, and when the call projects, every
\* requested volumes (snapshots) namespace has had a volumes (snapshots) fetch
\* launched by this call, and its value is read from that fetch's result map.
C12_Fresh ==
  /\ pc \in {"tenants", "plan", "admin"} =>
       allVolumes = EmptyMap /\ allSnapshots = EmptyMap
  /\ pc = "project" =>
       \A i \in DOMAIN metricTypes :
         LET namespace == metricTypes[i] IN
           /\ namespace[5] = "volumes" =>
                /\ LaunchedKind("volumes") # {}
                /\ Metric(namespace).Data_ =
                     GetValueByNamespace(
                       [volumes |-> Get(allVolumes, namespace[4], ZeroCount)],
                       SubSeq(namespace, 5, Len(namespace)))
           /\ namespace[5] = "snapshots" =>
                /\ LaunchedKind("snapshots") # {}
                /\ Metric(namespace).Data_ =
                     GetValueByNamespace(
                       [snapshots |-> Get(allSnapshots, namespace[4], ZeroCount)],
                       SubSeq(namespace, 5, Len(namespace)))

\* The goroutines of the current call that are still running, by kind.
Running(kinds) == {t \in tasks : t.call = callNo /\ t.kind \in kinds}

\* C13: the phases of one call are strictly sequential: while the call lists
\* and plans it has made no credential exchange and launched nothing; once the
\* limits phase has begun (its loop runs, or one of its fetches was launched)
\* no volumes or snapshots fetch of the call is running; and when the call
\* projects, none of its fetches is running.
C13_PhaseOrder ==
  /\ pc \in {"tenants", "plan"} =>
       /\ \A t \in Tenants : obs.exch[t] = 0
       /\ obs.launched = {}
       /\ Running({"volumes", "snapshots", "limits"}) = {}
  /\ pc \in {"admin", "adminWait"} => LaunchedKind("limits") = {}
  /\ (pc \in {"limits", "project"} \/ LaunchedKind("limits") # {}) =>
       Running({"volumes", "snapshots"}) = {}
  /\ pc = "project" => Running({"volumes", "snapshots", "limits"}) = {}

\* C13's case: a call that went through all the phases, with fetches launched
\* in both of them and a credential exchange in the limits phase, projects.
C13_Witness ==
  /\ pc = "project"
  /\ LaunchedKind("volumes") # {}
  /\ LaunchedKind("limits") # {}
  /\ obs.exch["beta"] = 1
  /\ "beta" \in obs.stored

\* Some requested namespace has the category in its fifth segment.
Requested(category) ==
  \E i \in DOMAIN metricTypes :
    Len(metricTypes[i]) >= 5 /\ metricTypes[i][5] = category

\* C14: the category segment alone selects the flag: after the scan,
\* collectLimits (collectVolumes, collectSnapshots) is set exactly when some
\* requested namespace has category limits (volumes, snapshots), whatever the
\* tenant and leaf segments are.
C14_CategoryBySegment ==
  pc \in {"admin", "adminWait", "limits", "project"} =>
    /\ collectLimits <=> Requested("limits")
    /\ collectVolumes <=> Requested("volumes")
    /\ collectSnapshots <=> Requested("snapshots")

\* The admin phase of the current call has launched its fetches.
AdminLaunched == pc \in {"adminWait", "limits", "project"}

\* C15 as stated: when collectVolumes or collectSnapshots is set, both the
\* volumes and the snapshots fetch are launched; when neither is, neither.
C15_LaunchBoth ==
  AdminLaunched =>
    IF collectVolumes \/ collectSnapshots
    THEN LaunchedKind("volumes") # {} /\ LaunchedKind("snapshots") # {}
    ELSE LaunchedKind("volumes") = {} /\ LaunchedKind("snapshots") = {}

\* C15, amended: each fetch is launched by its own flag: the volumes fetch iff
\* collectVolumes is set and the snapshots fetch iff collectSnapshots is set,
\* once and on the admin session; when neither flag is set, neither is launched.
C15_LaunchByFlag ==
  AdminLaunched =>
    /\ Admin \in DOMAIN providers
    /\ LaunchedKind("volumes") =
         (IF collectVolumes THEN {<<"volumes", Admin, providers[Admin]>>} ELSE {})
    /\ LaunchedKind("snapshots") =
         (IF collectSnapshots THEN {<<"snapshots", Admin, providers[Admin]>>}
          ELSE {})

\* C15's case: only volumes is needed, and only the volumes fetch is running.
C15_Witness ==
  /\ pc = "adminWait"
  /\ collectVolumes
  /\ ~collectSnapshots
  /\ Running({"volumes"}) # {}
  /\ LaunchedKind("snapshots") = {}

\* The step about to be taken is the orchestrator's authenticate for tenant.
AuthStepFor(tenant) ==
  \/ /\ pc = "admin"
     /\ tenant = Admin
     /\ pc' \in {"adminWait", "idle"}
  \/ /\ pc = "limits"
     /\ pending # <<>>
     /\ tenant = Head(pending)
     /\ LimitsNeeded(tenant)
     /\ pending' # pending \/ pc' = "idle"

\* C16: a failed credential exchange is not cached: the step in which the
\* exchange for a tenant fails returns AuthenticationError from the call,
\* leaves c.providers and c.service as they were, with no session for that
\* tenant; and every authenticate for a tenant without a stored session
\* (credentials configured) performs a credential exchange.
C16_FailureNotCached ==
  [][/\ (obs'.authFailed /\ ~obs.authFailed) =>
         /\ pc' = "idle"
         /\ ret' = [call |-> callNo, err |-> "AuthenticationError",
                    metrics |-> <<>>]
         /\ providers' = providers
         /\ service' = service
         /\ \A t \in Tenants :
              obs'.exch[t] # obs.exch[t] => t \notin DOMAIN providers'
     /\ \A t \in Tenants :
          (AuthStepFor(t) /\ t \notin DOMAIN providers /\ cfg.creds) =>
            obs'.exch[t] = obs.exch[t] + 1]_vars

\* C16's case: the admin session is stored, then the exchange for beta fails:
\* the call has returned the error, beta has no session, and the dispatch
\* selection is still the one made for the admin session.
C16_Witness ==
  /\ Returned
  /\ ret.err = "AuthenticationError"
  /\ obs.exch["beta"] = 1
  /\ "beta" \notin DOMAIN providers
  /\ Admin \in DOMAIN providers
  /\ service = Dispatch(providers[Admin])

\* The current call is past the listing of lines 102-108.
PastListing == callNo > 0 /\ pc \notin {"tenants", "crashed"}

\* C17 as stated: a call lists the tenants iff the directory was empty when
\* the call started; once a call has stored a non-empty directory no step of a
\* later call lists; and a call whose listing failed has created no session
\* and launched no fetch.
C17_RefreshRule ==
  /\ [](PastListing => (obs.listings > 0 <=> obs.dir0 = EmptyMap))
  /\ [][obs.dirStored => obs'.listings <= obs.listings]_vars
  /\ []((Returned /\ ret.err = "DirectoryError") =>
          /\ \A t \in Tenants : obs.exch[t] = 0
          /\ providers = obs.providers0
          /\ obs.launched = {})

\* C17, amended: a call lists the tenants only if the directory was empty
\* when it started, and then lists once provided the tenant and credential
\* configuration items are present; a call that started on a non-empty
\* directory neither lists nor changes the directory; and a call whose listing
\* failed has made it, left the directory empty, created no session and
\* launched no fetch.
C17_ListWhenEmpty ==
  /\ PastListing =>
       /\ obs.listings > 0 => obs.dir0 = EmptyMap
       /\ (obs.dir0 = EmptyMap /\ cfg.tenant /\ cfg.creds) => obs.listings = 1
       /\ obs.listings <= 1
  /\ (callNo > 0 /\ pc \notin {"idle", "crashed"} /\ obs.dir0 # EmptyMap) =>
       allTenants = obs.dir0 /\ obs.listings = 0
  /\ (Returned /\ ret.err = "DirectoryError") =>
       /\ obs.listings = 1
       /\ \A t \in Tenants : obs.exch[t] = 0
       /\ providers = obs.providers0
       /\ obs.launched = {}

\* C17's case: the first call listed and stored the directory; the second
\* call found it and has reached the projection without listing.
C17_Witness ==
  /\ callNo = 2
  /\ pc = "project"
  /\ obs.dirStored
  /\ obs.dir0 = DirFull
  /\ obs.listings = 0

\* The goroutines of the current call that have yet to read c.service (lines
\* 149, 165, 203).
ServiceReaders == {t \in InFlight(callNo) : t.pc = "launched"}

\* C18: within a call, a step that makes a credential exchange, inserts into
\* c.providers or re-selects c.service is taken only when no goroutine of the
\* call is running that has yet to read c.service.
C18_NoMutationInFlight ==
  [][(/\ callNo' = callNo
      /\ \/ \E t \in Tenants : obs'.exch[t] # obs.exch[t]
         \/ providers' # providers
         \/ service' # service)
       => ServiceReaders = {}]_vars

\* The limits goroutines of call n that may still send an error.
LimitsSenders(n) == {t \in tasks : t.call = n /\ t.kind = "limits" /\ t.pc = "launched"}

\* A step of CollectMetrics or of one of the goroutines.
CallStep ==
  \/ PopulateTenants \/ Plan \/ AdminAuth \/ VolumesTask \/ SnapshotsTask
  \/ AdminJoin \/ LimitsIter \/ LimitsFetch \/ LimitsStoreBegin \/ LimitsStoreEnd
  \/ LimitsJoin \/ Project

\* C19: the errors already buffered and the goroutines that may still send
\* one always fit the phase's channel (capacity 2 in the admin phase, the
\* number of planned tenants in the limits phase), so no send blocks; and a
\* call that has not returned can always take a further step, its own or one
\* of its goroutines', so that it ends by returning.
C19_FanOutTerminates ==
  /\ Len(errChn) + Cardinality(Running({"volumes", "snapshots"})) <= AdminChnCap
  /\ \A n \in 1..MaxCalls :
       Len(limChn[n].buf) + Cardinality(LimitsSenders(n)) <= limChn[n].cap
  /\ pc = "limits" =>
       limChn[callNo].cap = Cardinality(collectTenants)
  /\ ret.err = "pending" => ENABLED CallStep

====
